---- MODULE Spec2Model ----
(***************************************************************************)
(* State-machine model of the usds-swap program                            *)
(* (programs/usds-swap/src/lib.rs, delta_neutral.rs): the delta-neutral    *)
(* strategy registry and the TreasuryStats aggregate.                      *)
(*                                                                         *)
(* Every instruction is one atomic transaction: Anchor validates the       *)
(* accounts of the instruction's context, runs the handler and writes the  *)
(* accounts back; an error or a panic anywhere rolls everything back.      *)
(***************************************************************************)
EXTENDS Integers, Sequences, FiniteSets, TLC

VARIABLES
    strategy,          \* seed -> Strategy account at PDA ["strategy", treasury, seed]
    treasury_stats,    \* the TreasuryStats account at PDA ["treasury-stats", treasury]
    other_strategies,  \* strategies of the treasury under seeds outside Seeds
    clock,             \* Clock::get()?.unix_timestamp
    result,            \* what the last transaction returned: "Ok" or its error
    event,             \* the event the last transaction emitted (emit!), if any
    config,            \* address -> Config account created by initialize
    token_accounts,    \* address -> token account (mint, owner, amount)
    mints              \* address -> mint (supply, mint_authority)

registry_vars == <<strategy, treasury_stats, other_strategies, clock>>
ledger_vars == <<config, token_accounts, mints>>
vars == <<strategy, treasury_stats, other_strategies, clock, result, event,
          config, token_accounts, mints>>

(***************************************************************************)
(* Bounds of the model.                                                    *)
(***************************************************************************)
MaxClock == 1
MaxYieldTotal == 1000
Preloaded == 254
MaxDeposit == 2
MaxSupply == 3

\* strategy_seed strings; the Strategy PDA is ["strategy", treasury, strategy_seed]
Seeds == {"alpha", "beta"}
Principals == {"alice", "bob"}
NoKey == "11111111111111111111111111111111"
TreasuryKey == "treasury"

(***************************************************************************)
(* Integer types.  u8 values are naturals below 2^8.  A u64 that takes     *)
(* part in arithmetic is kept at its full width as four 16-bit limbs,      *)
(* most significant first.                                                 *)
(***************************************************************************)
U8Max == 255
LimbBase == 65536

U64(n) == <<0, 0, n \div LimbBase, n % LimbBase>>
U64Zero == <<0, 0, 0, 0>>
U64MAX == <<LimbBase - 1, LimbBase - 1, LimbBase - 1, LimbBase - 1>>

U64Less(a, b) ==
    \E i \in 1..4 : a[i] < b[i] /\ \A j \in 1..(i - 1) : a[j] = b[j]

U64Leq(a, b) == a = b \/ U64Less(a, b)

\* carry into limb i (carry[5] = 0 is the carry into the least significant limb)
RECURSIVE CarryInto(_, _, _)
CarryInto(a, b, i) ==
    IF i = 5 THEN 0
    ELSE (a[i] + b[i] + CarryInto(a, b, i + 1)) \div LimbBase

\* the sum modulo 2^64
LimbSum(a, b) ==
    [i \in 1..4 |-> (a[i] + b[i] + CarryInto(a, b, i + 1)) % LimbBase]

\* borrow into limb i of r - a (0 into the least significant limb)
RECURSIVE BorrowInto(_, _, _)
BorrowInto(r, a, i) ==
    IF i = 5 THEN 0
    ELSE IF r[i] - a[i] - BorrowInto(r, a, i + 1) < 0 THEN 1 ELSE 0

\* the difference modulo 2^64
U64Diff(r, a) ==
    [i \in 1..4 |-> (LimbBase + r[i] - a[i] - BorrowInto(r, a, i + 1)) % LimbBase]

\* u64::checked_add and u64::checked_sub: None when the result does not fit
checked_add_u64(a, b) ==
    IF CarryInto(a, b, 1) > 0 THEN [some |-> FALSE, value |-> U64Zero]
    ELSE [some |-> TRUE, value |-> LimbSum(a, b)]

checked_sub_u64(a, b) ==
    IF U64Less(a, b) THEN [some |-> FALSE, value |-> U64Zero]
    ELSE [some |-> TRUE, value |-> U64Diff(a, b)]

\* saturating_add_u64 with a seeded fault: the addition wraps
saturating_add_u64_wrapping(a, b) == LimbSum(a, b)

\* u64::saturating_add: the sum, or u64::MAX when it does not fit
saturating_add_u64(a, b) ==
    IF CarryInto(a, b, 1) > 0 THEN U64MAX ELSE LimbSum(a, b)

\* u8::saturating_sub
saturating_sub_u8(x, y) == IF x >= y THEN x - y ELSE 0

\* `x += 1` on a u8: panics when the build checks overflow, wraps otherwise
add_assign_u8(x, checks) ==
    IF x + 1 > U8Max
    THEN IF checks THEN [panic |-> TRUE, value |-> x]
                   ELSE [panic |-> FALSE, value |-> (x + 1) % (U8Max + 1)]
    ELSE [panic |-> FALSE, value |-> x + 1]

(***************************************************************************)
(* Accounts.  An account that was never created holds no discriminator     *)
(* (initialized = FALSE) and all-zero data.                                *)
(***************************************************************************)
StrategyUninit ==
    [initialized |-> FALSE, authority |-> NoKey, strategy_type |-> "LiquidStaking",
     state |-> "Active", allocation_percentage |-> 0, target_apy |-> 0,
     current_apy |-> 0, treasury |-> NoKey, last_rebalance_ts |-> 0,
     risk_score |-> 0, created_at |-> 0]

TreasuryStatsUninit ==
    [initialized |-> FALSE, total_usdc_deposited |-> 0, total_usdc_withdrawn |-> 0,
     total_yield_generated |-> U64Zero, current_portfolio_value |-> 0,
     strategies_count |-> 0, active_strategies_count |-> 0, last_updated_ts |-> 0,
     treasury |-> NoKey, treasury_authority |-> NoKey]

(***************************************************************************)
(* Outcome of a transaction: the result code, the accounts as written      *)
(* back, and the event emitted.                                            *)
(***************************************************************************)
NoEvent == [name |-> "none"]

Ok(s, st, ev) == [result |-> "Ok", strategy |-> s, stats |-> st, event |-> ev]

\* an error aborts the transaction: the accounts keep their contents
Err(code, s, st) == [result |-> code, strategy |-> s, stats |-> st, event |-> NoEvent]

(***************************************************************************)
(* Account validation (#[derive(Accounts)]).  Each returns "Ok" or the     *)
(* error that stops the instruction before its handler runs.               *)
(***************************************************************************)

\* InitializeStrategy: `init` of the strategy account fails when the address
\* is already in use; treasury_stats is init_if_needed
InitializeStrategy_accounts(s) ==
    IF s.initialized THEN "AccountAlreadyInUse" ELSE "Ok"

\* init_if_needed: an absent TreasuryStats account is created zeroed, a
\* present one is loaded as it is
init_if_needed(st) ==
    IF st.initialized THEN st ELSE [TreasuryStatsUninit EXCEPT !.initialized = TRUE]

\* UpdateStrategy_accounts with a seeded fault: no authority constraint
UpdateStrategy_accounts_unconstrained(s, st, signer) ==
    IF ~s.initialized \/ ~st.initialized THEN "AccountNotInitialized" ELSE "Ok"

\* UpdateStrategy: both accounts must exist, and
\* constraint = strategy.authority == authority.key()
UpdateStrategy_accounts(s, st, signer) ==
    IF ~s.initialized \/ ~st.initialized THEN "AccountNotInitialized"
    ELSE IF ~(s.authority = signer) THEN "ConstraintRaw"
    ELSE "Ok"

\* ReportYield: authority is any Signer; treasury_stats must exist
ReportYield_accounts(st, signer) ==
    IF ~st.initialized THEN "AccountNotInitialized" ELSE "Ok"

(***************************************************************************)
(* Instruction handlers.  s is the Strategy account at address key, st     *)
(* the TreasuryStats account, now the clock reading, checks the build's    *)
(* overflow-checks setting.                                                *)
(***************************************************************************)

initialize_strategy(s, st, key, signer, strategy_type, allocation_percentage, target_apy, risk_score, now, checks) ==
    IF ~(allocation_percentage <= 100) THEN Err("InvalidAllocationPercentage", s, st)
    ELSE IF ~(risk_score <= 100) THEN Err("InvalidRiskScore", s, st)
    ELSE IF ~(target_apy > 0) THEN Err("InvalidTargetApy", s, st)
    ELSE
      LET s1 == [initialized |-> TRUE, authority |-> signer,
                 strategy_type |-> strategy_type, state |-> "Paused",
                 allocation_percentage |-> allocation_percentage,
                 target_apy |-> target_apy, current_apy |-> 0,
                 treasury |-> TreasuryKey, last_rebalance_ts |-> now,
                 risk_score |-> risk_score, created_at |-> now]
          st0 == init_if_needed(st)
          st1 == IF st0.total_usdc_deposited = 0
                 THEN [st0 EXCEPT !.treasury = TreasuryKey,
                                  !.treasury_authority = signer,
                                  !.last_updated_ts = now]
                 ELSE st0
          inc == add_assign_u8(st1.strategies_count, checks)
      IN IF inc.panic THEN Err("ProgramFailedToComplete", s, st)
         ELSE Ok(s1, [st1 EXCEPT !.strategies_count = inc.value],
                 [name |-> "StrategyInitializedEvent", strategy |-> key,
                  strategy_type |-> strategy_type,
                  allocation_percentage |-> allocation_percentage,
                  target_apy |-> target_apy, risk_score |-> risk_score,
                  initialized_by |-> signer, timestamp |-> now])

StateChanged(key, old_state, new_state, now, signer) ==
    [name |-> "StrategyStateChangedEvent", strategy |-> key, old_state |-> old_state,
     new_state |-> new_state, timestamp |-> now, performed_by |-> signer]

\* activate_strategy with a seeded fault: no StrategyAlreadyActive check
activate_strategy_unguarded(s, st, key, signer, now, checks) ==
    LET inc == add_assign_u8(st.active_strategies_count, checks)
    IN IF inc.panic THEN Err("ProgramFailedToComplete", s, st)
       ELSE Ok([s EXCEPT !.state = "Active", !.last_rebalance_ts = now],
               [st EXCEPT !.active_strategies_count = inc.value,
                          !.last_updated_ts = now],
               StateChanged(key, s.state, "Active", now, signer))

activate_strategy(s, st, key, signer, now, checks) ==
    IF ~(s.state # "Active") THEN Err("StrategyAlreadyActive", s, st)
    ELSE
      LET inc == add_assign_u8(st.active_strategies_count, checks)
      IN IF inc.panic THEN Err("ProgramFailedToComplete", s, st)
         ELSE Ok([s EXCEPT !.state = "Active", !.last_rebalance_ts = now],
                 [st EXCEPT !.active_strategies_count = inc.value,
                            !.last_updated_ts = now],
                 StateChanged(key, s.state, "Active", now, signer))

\* pause_strategy with a seeded fault: no StrategyNotActive check
pause_strategy_unguarded(s, st, key, signer, now) ==
    Ok([s EXCEPT !.state = "Paused"],
       [st EXCEPT !.active_strategies_count =
                      saturating_sub_u8(st.active_strategies_count, 1),
                  !.last_updated_ts = now],
       StateChanged(key, s.state, "Paused", now, signer))

pause_strategy(s, st, key, signer, now) ==
    IF ~(s.state = "Active") THEN Err("StrategyNotActive", s, st)
    ELSE Ok([s EXCEPT !.state = "Paused"],
            [st EXCEPT !.active_strategies_count =
                           saturating_sub_u8(st.active_strategies_count, 1),
                       !.last_updated_ts = now],
            StateChanged(key, s.state, "Paused", now, signer))

terminate_strategy(s, st, key, signer, now) ==
    Ok([s EXCEPT !.state = "Terminated"],
       [st EXCEPT !.active_strategies_count =
                      IF s.state = "Active"
                      THEN saturating_sub_u8(st.active_strategies_count, 1)
                      ELSE st.active_strategies_count,
                  !.last_updated_ts = now],
       StateChanged(key, s.state, "Terminated", now, signer))

\* update_allocation with a seeded fault: no range check
update_allocation_unvalidated(s, st, key, signer, new_allocation, now) ==
    Ok([s EXCEPT !.allocation_percentage = new_allocation],
       [st EXCEPT !.last_updated_ts = now],
       [name |-> "RebalanceEvent", strategy |-> key,
        old_allocation |-> s.allocation_percentage,
        new_allocation |-> new_allocation, timestamp |-> now,
        performed_by |-> signer])

update_allocation(s, st, key, signer, new_allocation, now) ==
    IF ~(new_allocation <= 100) THEN Err("InvalidAllocationPercentage", s, st)
    ELSE Ok([s EXCEPT !.allocation_percentage = new_allocation],
            [st EXCEPT !.last_updated_ts = now],
            [name |-> "RebalanceEvent", strategy |-> key,
             old_allocation |-> s.allocation_percentage,
             new_allocation |-> new_allocation, timestamp |-> now,
             performed_by |-> signer])

\* update_apy with a seeded fault: TreasuryStats is not stamped
update_apy_unstamped(s, st, key, new_apy, now) ==
    Ok([s EXCEPT !.current_apy = new_apy], st,
       [name |-> "YieldReportEvent", strategy |-> key,
        previous_apy |-> s.current_apy, current_apy |-> new_apy, timestamp |-> now])

\* update_apy with a seeded fault: the reported APY also replaces target_apy
update_apy_retargeting(s, st, key, new_apy, now) ==
    Ok([s EXCEPT !.current_apy = new_apy, !.target_apy = new_apy],
       [st EXCEPT !.last_updated_ts = now],
       [name |-> "YieldReportEvent", strategy |-> key,
        previous_apy |-> s.current_apy, current_apy |-> new_apy, timestamp |-> now])

update_apy(s, st, key, new_apy, now) ==
    Ok([s EXCEPT !.current_apy = new_apy],
       [st EXCEPT !.last_updated_ts = now],
       [name |-> "YieldReportEvent", strategy |-> key,
        previous_apy |-> s.current_apy, current_apy |-> new_apy, timestamp |-> now])

report_yield(st, signer, yield_amount, new_portfolio_value, now) ==
    Ok(StrategyUninit,
       [st EXCEPT !.total_yield_generated =
                      saturating_add_u64(st.total_yield_generated, yield_amount),
                  !.current_portfolio_value = new_portfolio_value,
                  !.last_updated_ts = now],
       [name |-> "YieldGeneratedEvent", treasury |-> TreasuryKey,
        yield_amount |-> yield_amount, new_portfolio_value |-> new_portfolio_value,
        timestamp |-> now, reported_by |-> signer])

(***************************************************************************)
(* The token program the swaps call by CPI (anchor_spl::token).  bank is   *)
(* the token ledger: accounts maps a token account address to its mint,    *)
(* owner and amount, mints maps a mint address to its supply and mint      *)
(* authority.  No account is frozen, native or delegated.  Each primitive  *)
(* returns "Ok" and the new ledger, or the token program's error.          *)
(***************************************************************************)
TokenOk(bank) == [result |-> "Ok", bank |-> bank]

TokenErr(code, bank) == [result |-> code, bank |-> bank]

\* token::transfer(Transfer {from, to, authority}, amount)
token_transfer(bank, from, to, authority, amount) ==
    LET source == bank.accounts[from]
        destination == bank.accounts[to]
        debit == checked_sub_u64(source.amount, amount)
        credit == checked_add_u64(destination.amount, amount)
    IN IF U64Less(source.amount, amount) THEN TokenErr("InsufficientFunds", bank)
       ELSE IF source.mint # destination.mint THEN TokenErr("MintMismatch", bank)
       ELSE IF source.owner # authority THEN TokenErr("OwnerMismatch", bank)
       ELSE IF from = to \/ amount = U64Zero THEN TokenOk(bank)
       ELSE IF ~debit.some \/ ~credit.some THEN TokenErr("Overflow", bank)
       ELSE TokenOk([bank EXCEPT !.accounts[from].amount = debit.value,
                                 !.accounts[to].amount = credit.value])

\* token::mint_to(MintTo {mint, to, authority}, amount)
token_mint_to(bank, mint, to, authority, amount) ==
    LET destination == bank.accounts[to]
        credit == checked_add_u64(destination.amount, amount)
        supply == checked_add_u64(bank.mints[mint].supply, amount)
    IN IF destination.mint # mint THEN TokenErr("MintMismatch", bank)
       ELSE IF bank.mints[mint].mint_authority # authority
            THEN TokenErr("OwnerMismatch", bank)
       ELSE IF ~credit.some \/ ~supply.some THEN TokenErr("Overflow", bank)
       ELSE TokenOk([bank EXCEPT !.accounts[to].amount = credit.value,
                                 !.mints[mint].supply = supply.value])

\* token::burn(Burn {mint, from, authority}, amount)
token_burn(bank, mint, from, authority, amount) ==
    LET source == bank.accounts[from]
        debit == checked_sub_u64(source.amount, amount)
        supply == checked_sub_u64(bank.mints[mint].supply, amount)
    IN IF U64Less(source.amount, amount) THEN TokenErr("InsufficientFunds", bank)
       ELSE IF source.mint # mint THEN TokenErr("MintMismatch", bank)
       ELSE IF source.owner # authority THEN TokenErr("OwnerMismatch", bank)
       ELSE IF ~debit.some \/ ~supply.some THEN TokenErr("Overflow", bank)
       ELSE TokenOk([bank EXCEPT !.accounts[from].amount = debit.value,
                                 !.mints[mint].supply = supply.value])

(***************************************************************************)
(* Config and the swap instructions.  The seeds constraints of the         *)
(* treasury and mint-authority PDAs read the bump bytes initialize stored, *)
(* which are the canonical ones, so they always pass; the PDAs sign the    *)
(* CPIs they authorise.                                                    *)
(***************************************************************************)
MintAuthorityKey == "mint-authority"

ConfigUninit ==
    [initialized |-> FALSE, usds_mint |-> NoKey, treasury_token_account |-> NoKey]

\* Initialize: `init` of the config account fails when the address is in use
Initialize_accounts(cfg) ==
    IF cfg.initialized THEN "AccountAlreadyInUse" ELSE "Ok"

initialize(cfg, treasury_token_account, usds_mint) ==
    [initialized |-> TRUE, usds_mint |-> usds_mint,
     treasury_token_account |-> treasury_token_account]

\* SwapUsdcToUsds and SwapUsdsToUsdc check the same accounts: the config
\* exists, the user owns both token accounts, and the custody account and the
\* mint are the ones the config names
Swap_accounts(cfg, bank, user, user_usdc, user_usds, treasury_token_account, usds_mint) ==
    IF ~cfg.initialized THEN "AccountNotInitialized"
    ELSE IF ~(bank.accounts[user_usdc].owner = user) THEN "ConstraintRaw"
    ELSE IF ~(bank.accounts[user_usds].owner = user) THEN "ConstraintRaw"
    ELSE IF ~(treasury_token_account = cfg.treasury_token_account)
         THEN "ConstraintAddress"
    ELSE IF ~(usds_mint = cfg.usds_mint) THEN "ConstraintAddress"
    ELSE "Ok"

SwapOk(bank, ev) == [result |-> "Ok", bank |-> bank, event |-> ev]

\* an error in either leg aborts the transaction: the ledger keeps its contents
SwapErr(code, bank) == [result |-> code, bank |-> bank, event |-> NoEvent]

\* swap_usdc_to_usds with a seeded fault: a failed mint_to returns its error
\* but the transfer already made is kept
swap_usdc_to_usds_partial(bank, user, user_usdc, user_usds, treasury_token_account, usds_mint, amount) ==
    LET t == token_transfer(bank, user_usdc, treasury_token_account, user, amount)
    IN IF t.result # "Ok" THEN SwapErr(t.result, bank)
       ELSE
         LET m == token_mint_to(t.bank, usds_mint, user_usds, MintAuthorityKey, amount)
         IN IF m.result # "Ok" THEN SwapErr(m.result, t.bank)
            ELSE SwapOk(m.bank, [name |-> "SwapEvent", user |-> user, amount |-> amount,
                                 swap_direction |-> "UsdcToUsds"])

swap_usdc_to_usds(bank, user, user_usdc, user_usds, treasury_token_account, usds_mint, amount) ==
    LET t == token_transfer(bank, user_usdc, treasury_token_account, user, amount)
    IN IF t.result # "Ok" THEN SwapErr(t.result, bank)
       ELSE
         LET m == token_mint_to(t.bank, usds_mint, user_usds, MintAuthorityKey, amount)
         IN IF m.result # "Ok" THEN SwapErr(m.result, bank)
            ELSE SwapOk(m.bank, [name |-> "SwapEvent", user |-> user, amount |-> amount,
                                 swap_direction |-> "UsdcToUsds"])

swap_usds_to_usdc(bank, user, user_usdc, user_usds, treasury_token_account, usds_mint, amount) ==
    LET b == token_burn(bank, usds_mint, user_usds, user, amount)
    IN IF b.result # "Ok" THEN SwapErr(b.result, bank)
       ELSE
         LET t == token_transfer(b.bank, treasury_token_account, user_usdc, TreasuryKey, amount)
         IN IF t.result # "Ok" THEN SwapErr(t.result, bank)
            ELSE SwapOk(t.bank, [name |-> "SwapEvent", user |-> user, amount |-> amount,
                                 swap_direction |-> "UsdsToUsdc"])

(***************************************************************************)
(* Inputs the transactions draw from.  Two input profiles bound the two    *)
(* specifications below: Spec explores the lifecycle of two strategies     *)
(* over time and near the u8 limits of the counters with few argument      *)
(* values; SpecValues explores the argument values (allocations, APYs,     *)
(* yields up to u64::MAX) at one clock reading.                            *)
(***************************************************************************)
StrategyTypes == {"Lending"}
\* <<allocation_percentage, target_apy, risk_score>>
InitializeInputs ==
    {<<30, 500, 40>>, <<100, 500, 40>>, <<101, 500, 40>>, <<30, 500, 101>>,
     <<30, 0, 40>>, <<101, 0, 101>>}
AllocationInputs == {30, 100, 101}
ApyInputs == {700}
YieldInputs == {U64(1000), U64MAX}
PortfolioInputs == {50000}

LifecycleInitializeInputs == {<<30, 500, 40>>, <<101, 500, 40>>}
LifecycleAllocationInputs == {30, 101}
LifecycleApyInputs == {0}
LifecycleYieldInputs == {U64Zero}
LifecyclePortfolioInputs == {0}

\* the token accounts, mints and Config addresses of the model: a USDC and a
\* USDs account for each principal, the custody account "vault" owned by the
\* treasury PDA, and a mint "JUNK" that bob controls with two accounts of it
ConfigKeys == {"config", "config2"}
MintKeys == {"USDC", "USDS", "JUNK"}
TokenAccountKeys ==
    {"alice_usdc", "alice_usds", "bob_usdc", "bob_usds", "vault", "bob_junk",
     "junk_vault"}
\* U64MAX - 1
Huge == U64Diff(U64MAX, U64(1))
\* <<treasury_token_account, usds_mint>> passed to initialize
ConfigInputs == {<<"vault", "USDS">>, <<"junk_vault", "USDS">>}
UserUsdcInputs == {"alice_usdc", "bob_usdc", "bob_junk"}
UserUsdsInputs == {"alice_usds", "bob_usds"}
CustodyInputs == {"vault", "junk_vault"}
UsdsMintInputs == {"USDS"}
AmountInputs == {U64(1), U64(MaxDeposit), Huge}

\* the sources fix no build profile: a u8 `+= 1` that overflows panics in a
\* build with overflow-checks and wraps in one without
OverflowChecks == BOOLEAN

(***************************************************************************)
(* Initial states.  Either nothing exists yet, or Preloaded strategies     *)
(* were already initialized and activated under seeds outside Seeds (each  *)
(* by initialize_strategy then activate_strategy, signed by "bob" at time  *)
(* 0), which leaves the TreasuryStats account as written below.            *)
(***************************************************************************)
PreloadedStats ==
    [TreasuryStatsUninit EXCEPT !.initialized = TRUE, !.treasury = TreasuryKey,
                                !.treasury_authority = "bob",
                                !.strategies_count = Preloaded,
                                !.active_strategies_count = Preloaded]

TokenAccount(mint, owner, amount) == [mint |-> mint, owner |-> owner, amount |-> amount]

\* no Config exists; alice holds MaxDeposit USDC and bob 1; no USDs was minted;
\* bob minted himself u64::MAX of JUNK
LedgerInit ==
    /\ config = [c \in ConfigKeys |-> ConfigUninit]
    /\ token_accounts =
           [a \in TokenAccountKeys |->
               CASE a = "alice_usdc" -> TokenAccount("USDC", "alice", U64(MaxDeposit))
                 [] a = "alice_usds" -> TokenAccount("USDS", "alice", U64Zero)
                 [] a = "bob_usdc" -> TokenAccount("USDC", "bob", U64(1))
                 [] a = "bob_usds" -> TokenAccount("USDS", "bob", U64Zero)
                 [] a = "vault" -> TokenAccount("USDC", TreasuryKey, U64Zero)
                 [] a = "bob_junk" -> TokenAccount("JUNK", "bob", U64MAX)
                 [] a = "junk_vault" -> TokenAccount("JUNK", "bob", U64Zero)]
    /\ mints =
           [m \in MintKeys |->
               CASE m = "USDC" -> [supply |-> U64(MaxDeposit + 1), mint_authority |-> NoKey]
                 [] m = "USDS" -> [supply |-> U64Zero, mint_authority |-> MintAuthorityKey]
                 [] m = "JUNK" -> [supply |-> U64MAX, mint_authority |-> "bob"]]

InitFresh ==
    /\ LedgerInit
    /\ strategy = [k \in Seeds |-> StrategyUninit]
    /\ other_strategies = [created |-> 0, active |-> 0]
    /\ treasury_stats = TreasuryStatsUninit
    /\ clock = 0
    /\ result = "Ok"
    /\ event = NoEvent

InitPreloaded ==
    /\ Preloaded <= U8Max
    /\ LedgerInit
    /\ strategy = [k \in Seeds |-> StrategyUninit]
    /\ other_strategies = [created |-> Preloaded, active |-> Preloaded]
    /\ treasury_stats = PreloadedStats
    /\ clock = 0
    /\ result = "Ok"
    /\ event = NoEvent

Init == InitFresh \/ InitPreloaded

(***************************************************************************)
(* Transactions.  Commit writes back the accounts of an instruction on the *)
(* strategy account at seed k and on the TreasuryStats account.            *)
(***************************************************************************)
Commit(k, out) ==
    /\ strategy' = [strategy EXCEPT ![k] = out.strategy]
    /\ treasury_stats' = out.stats
    /\ result' = out.result
    /\ event' = out.event
    /\ UNCHANGED <<other_strategies, clock>>
    /\ UNCHANGED ledger_vars

\* initialize_strategy under the InitializeStrategy context
InitializeStrategyIx(k, signer, ty, a, t, r, now, checks) ==
    LET s == strategy[k]
        v == InitializeStrategy_accounts(s)
    IN IF v = "Ok"
       THEN initialize_strategy(s, treasury_stats, k, signer, ty, a, t, r, now, checks)
       ELSE Err(v, s, treasury_stats)

\* the five instructions under the UpdateStrategy context, on a Strategy
\* account s at seed k and a TreasuryStats account st
ActivateStrategyOn(s, st, k, signer, now, checks) ==
    LET v == UpdateStrategy_accounts(s, st, signer)
    IN IF v = "Ok" THEN activate_strategy(s, st, k, signer, now, checks)
       ELSE Err(v, s, st)

PauseStrategyOn(s, st, k, signer, now) ==
    LET v == UpdateStrategy_accounts(s, st, signer)
    IN IF v = "Ok" THEN pause_strategy(s, st, k, signer, now)
       ELSE Err(v, s, st)

TerminateStrategyOn(s, st, k, signer, now) ==
    LET v == UpdateStrategy_accounts(s, st, signer)
    IN IF v = "Ok" THEN terminate_strategy(s, st, k, signer, now)
       ELSE Err(v, s, st)

UpdateAllocationOn(s, st, k, signer, a, now) ==
    LET v == UpdateStrategy_accounts(s, st, signer)
    IN IF v = "Ok" THEN update_allocation(s, st, k, signer, a, now)
       ELSE Err(v, s, st)

UpdateApyOn(s, st, k, signer, y, now) ==
    LET v == UpdateStrategy_accounts(s, st, signer)
    IN IF v = "Ok" THEN update_apy(s, st, k, y, now)
       ELSE Err(v, s, st)

\* the same on the accounts as they are now
ActivateStrategyIx(k, signer, now, checks) ==
    ActivateStrategyOn(strategy[k], treasury_stats, k, signer, now, checks)

PauseStrategyIx(k, signer, now) ==
    PauseStrategyOn(strategy[k], treasury_stats, k, signer, now)

TerminateStrategyIx(k, signer, now) ==
    TerminateStrategyOn(strategy[k], treasury_stats, k, signer, now)

UpdateAllocationIx(k, signer, a, now) ==
    UpdateAllocationOn(strategy[k], treasury_stats, k, signer, a, now)

UpdateApyIx(k, signer, y, now) ==
    UpdateApyOn(strategy[k], treasury_stats, k, signer, y, now)

\* report_yield under the ReportYield context (it touches no Strategy account)
ReportYieldIx(signer, y, p, now) ==
    LET v == ReportYield_accounts(treasury_stats, signer)
    IN IF v = "Ok" THEN report_yield(treasury_stats, signer, y, p, now)
       ELSE Err(v, StrategyUninit, treasury_stats)

InitializeStrategy(inputs) ==
    \E signer \in Principals, k \in Seeds, ty \in StrategyTypes,
       in \in inputs, checks \in OverflowChecks :
        Commit(k, InitializeStrategyIx(k, signer, ty, in[1], in[2], in[3], clock, checks))

ActivateStrategy ==
    \E signer \in Principals, k \in Seeds, checks \in OverflowChecks :
        Commit(k, ActivateStrategyIx(k, signer, clock, checks))

PauseStrategy ==
    \E signer \in Principals, k \in Seeds :
        Commit(k, PauseStrategyIx(k, signer, clock))

TerminateStrategy ==
    \E signer \in Principals, k \in Seeds :
        Commit(k, TerminateStrategyIx(k, signer, clock))

UpdateAllocation(allocations) ==
    \E signer \in Principals, k \in Seeds, a \in allocations :
        Commit(k, UpdateAllocationIx(k, signer, a, clock))

UpdateApy(apys) ==
    \E signer \in Principals, k \in Seeds, y \in apys :
        Commit(k, UpdateApyIx(k, signer, y, clock))

\* the model stops adding to a total above MaxYieldTotal unless the sum saturates
YieldWithinBound(st, y) ==
    LET sum == saturating_add_u64(st.total_yield_generated, y)
    IN U64Leq(sum, U64(MaxYieldTotal)) \/ sum = U64MAX

ReportYield(yields, values) ==
    \E signer \in Principals, y \in yields, p \in values :
        /\ YieldWithinBound(treasury_stats, y)
        /\ LET out == ReportYieldIx(signer, y, p, clock)
           IN /\ treasury_stats' = out.stats
              /\ result' = out.result
              /\ event' = out.event
              /\ UNCHANGED <<strategy, other_strategies, clock>>
              /\ UNCHANGED ledger_vars

\* time passes between transactions
Tick ==
    /\ clock < MaxClock
    /\ clock' = clock + 1
    /\ UNCHANGED <<strategy, treasury_stats, other_strategies, result, event>>
    /\ UNCHANGED ledger_vars

Next ==
    \/ InitializeStrategy(LifecycleInitializeInputs)
    \/ ActivateStrategy
    \/ PauseStrategy
    \/ TerminateStrategy
    \/ UpdateAllocation(LifecycleAllocationInputs)
    \/ UpdateApy(LifecycleApyInputs)
    \/ ReportYield(LifecycleYieldInputs, LifecyclePortfolioInputs)
    \/ Tick

Spec == Init /\ [][Next]_vars

NextValues ==
    \/ InitializeStrategy(InitializeInputs)
    \/ ActivateStrategy
    \/ PauseStrategy
    \/ TerminateStrategy
    \/ UpdateAllocation(AllocationInputs)
    \/ UpdateApy(ApyInputs)
    \/ ReportYield(YieldInputs, PortfolioInputs)

SpecValues == InitFresh /\ [][NextValues]_vars

(***************************************************************************)
(* The swap transactions.  The instructions are functions of the Config    *)
(* accounts and the token ledger they are given.                           *)
(***************************************************************************)
Bank == [accounts |-> token_accounts, mints |-> mints]

InitializeIx(cfgs, c, treasury_token_account, usds_mint) ==
    LET v == Initialize_accounts(cfgs[c])
    IN [result |-> v,
        config |-> IF v = "Ok"
                   THEN [cfgs EXCEPT ![c] = initialize(cfgs[c], treasury_token_account, usds_mint)]
                   ELSE cfgs]

SwapUsdcToUsdsIx(cfgs, bank, c, user, user_usdc, user_usds, custody, mint, amount) ==
    LET v == Swap_accounts(cfgs[c], bank, user, user_usdc, user_usds, custody, mint)
    IN IF v = "Ok"
       THEN swap_usdc_to_usds(bank, user, user_usdc, user_usds, custody, mint, amount)
       ELSE SwapErr(v, bank)

SwapUsdsToUsdcIx(cfgs, bank, c, user, user_usdc, user_usds, custody, mint, amount) ==
    LET v == Swap_accounts(cfgs[c], bank, user, user_usdc, user_usds, custody, mint)
    IN IF v = "Ok"
       THEN swap_usds_to_usdc(bank, user, user_usdc, user_usds, custody, mint, amount)
       ELSE SwapErr(v, bank)

\* the model follows the USDs supply up to MaxSupply and within MaxSupply of
\* u64::MAX
SupplyWithinBound(bank) ==
    \/ U64Leq(bank.mints["USDS"].supply, U64(MaxSupply))
    \/ U64Leq(U64Diff(U64MAX, U64(MaxSupply)), bank.mints["USDS"].supply)

CommitSwap(out) ==
    /\ SupplyWithinBound(out.bank)
    /\ token_accounts' = out.bank.accounts
    /\ mints' = out.bank.mints
    /\ result' = out.result
    /\ event' = out.event
    /\ UNCHANGED config
    /\ UNCHANGED registry_vars

Initialize ==
    \E c \in ConfigKeys, in \in ConfigInputs :
        LET out == InitializeIx(config, c, in[1], in[2])
        IN /\ config' = out.config
           /\ result' = out.result
           /\ event' = NoEvent
           /\ UNCHANGED <<token_accounts, mints>>
           /\ UNCHANGED registry_vars

SwapUsdcToUsds ==
    \E user \in Principals, c \in ConfigKeys, uu \in UserUsdcInputs,
       us \in UserUsdsInputs, custody \in CustodyInputs, m \in UsdsMintInputs,
       amount \in AmountInputs :
        CommitSwap(SwapUsdcToUsdsIx(config, Bank, c, user, uu, us, custody, m, amount))

SwapUsdsToUsdc ==
    \E user \in Principals, c \in ConfigKeys, uu \in UserUsdcInputs,
       us \in UserUsdsInputs, custody \in CustodyInputs, m \in UsdsMintInputs,
       amount \in AmountInputs :
        CommitSwap(SwapUsdsToUsdcIx(config, Bank, c, user, uu, us, custody, m, amount))

NextSwap ==
    \/ Initialize
    \/ SwapUsdcToUsds
    \/ SwapUsdsToUsdc

SpecSwap == InitFresh /\ [][NextSwap]_vars

(***************************************************************************)
(* Properties.  An instruction's outcome is examined in every reachable    *)
(* state for every signer and argument of the input sets; Rejected says    *)
(* the transaction failed with the given error, wrote nothing back and     *)
(* emitted nothing.                                                        *)
(***************************************************************************)
IsActive(s) == s.initialized /\ s.state = "Active"

Rejected(out, k, code) ==
    /\ out.result = code
    /\ out.strategy = strategy[k]
    /\ out.stats = treasury_stats
    /\ out.event = NoEvent

U8Inputs == AllocationInputs \cup {0, U8Max}

\* <<allocation_percentage, target_apy, risk_score>> of both input profiles, and
\* the largest u8 in each range-checked place
AnyInitializeInputs ==
    InitializeInputs \cup LifecycleInitializeInputs
        \cup {<<U8Max, 500, 40>>, <<30, 500, U8Max>>}

\* P(k, out) for the outcome out of every instruction that names the Strategy
\* account at seed k, for every signer and argument
ForAllStrategyOutcomes(P(_, _)) ==
    \A k \in Seeds, signer \in Principals :
        /\ \A ty \in StrategyTypes, in \in AnyInitializeInputs, c \in OverflowChecks :
               P(k, InitializeStrategyIx(k, signer, ty, in[1], in[2], in[3], clock, c))
        /\ \A c \in OverflowChecks : P(k, ActivateStrategyIx(k, signer, clock, c))
        /\ P(k, PauseStrategyIx(k, signer, clock))
        /\ P(k, TerminateStrategyIx(k, signer, clock))
        /\ \A a \in U8Inputs : P(k, UpdateAllocationIx(k, signer, a, clock))
        /\ \A y \in ApyInputs \cup LifecycleApyInputs :
               P(k, UpdateApyIx(k, signer, y, clock))

\* C1: in every reachable state active_strategies_count <= strategies_count.
C1_ActiveAtMostTotal ==
    treasury_stats.active_strategies_count <= treasury_stats.strategies_count

\* C2: Terminated is absorbing: no step changes the state of a Terminated
\* strategy to Paused or Active.
C2_TerminatedAbsorbing ==
    [][\A k \in Seeds :
          (strategy[k].initialized /\ strategy[k].state = "Terminated")
              => strategy'[k].state = "Terminated"]_vars

\* C3: report_yield signed by anyone but treasury_stats.treasury_authority fails
\* and leaves total_yield_generated, current_portfolio_value and
\* last_updated_ts unchanged.
C3_ReportYieldAuthorityChecked ==
    treasury_stats.initialized =>
        \A signer \in Principals, y \in YieldInputs, p \in PortfolioInputs :
            signer # treasury_stats.treasury_authority =>
                LET out == ReportYieldIx(signer, y, p, clock)
                IN /\ out.result # "Ok"
                   /\ out.stats.total_yield_generated = treasury_stats.total_yield_generated
                   /\ out.stats.current_portfolio_value = treasury_stats.current_portfolio_value
                   /\ out.stats.last_updated_ts = treasury_stats.last_updated_ts

\* C4: activate_strategy, pause_strategy, terminate_strategy, update_allocation
\* and update_apy signed by anyone but the strategy's stored authority fail with
\* the constraint error (the spec's Unauthorized), change neither the Strategy
\* nor the TreasuryStats account and emit no event.
C4_UnauthorizedRejected ==
    \A k \in Seeds, signer \in Principals :
        (strategy[k].initialized /\ signer # strategy[k].authority) =>
            /\ \A c \in OverflowChecks :
                   Rejected(ActivateStrategyIx(k, signer, clock, c), k, "ConstraintRaw")
            /\ Rejected(PauseStrategyIx(k, signer, clock), k, "ConstraintRaw")
            /\ Rejected(TerminateStrategyIx(k, signer, clock), k, "ConstraintRaw")
            /\ \A a \in U8Inputs :
                   Rejected(UpdateAllocationIx(k, signer, a, clock), k, "ConstraintRaw")
            /\ \A y \in ApyInputs \cup LifecycleApyInputs :
                   Rejected(UpdateApyIx(k, signer, y, clock), k, "ConstraintRaw")

C4_Witness ==
    /\ result = "ConstraintRaw"
    /\ event = NoEvent
    /\ \E k \in Seeds : IsActive(strategy[k])

\* C5: pause_strategy on a Paused or Terminated strategy fails (with
\* StrategyNotActive when its authority signs) and leaves the strategy's state
\* and active_strategies_count unchanged; it succeeds only on an Active strategy.
C5_PauseOnlyWhenActive ==
    \A k \in Seeds, signer \in Principals :
        LET out == PauseStrategyIx(k, signer, clock)
        IN /\ (strategy[k].initialized /\ strategy[k].state \in {"Paused", "Terminated"}) =>
                  /\ out.result # "Ok"
                  /\ signer = strategy[k].authority => out.result = "StrategyNotActive"
                  /\ out.strategy.state = strategy[k].state
                  /\ out.stats.active_strategies_count
                         = treasury_stats.active_strategies_count
           /\ out.result = "Ok" => IsActive(strategy[k])
           /\ (IsActive(strategy[k]) /\ signer = strategy[k].authority) => out.result = "Ok"

C5_Witness ==
    /\ result = "StrategyNotActive"
    /\ \E k \in Seeds : strategy[k].initialized /\ strategy[k].state = "Terminated"
    /\ \E k \in Seeds : strategy[k].initialized /\ strategy[k].state = "Paused"

\* an outcome that increments the counter activates a strategy that was not Active
C6_IncrementActivates(k, out) ==
    out.stats.active_strategies_count
        = (treasury_stats.active_strategies_count + 1) % (U8Max + 1)
    => (~IsActive(strategy[k]) /\ IsActive(out.strategy))

\* C6: activate_strategy on an Active strategy fails (with StrategyAlreadyActive
\* when its authority signs) and leaves state, last_rebalance_ts and
\* active_strategies_count unchanged; and an instruction that increments
\* active_strategies_count turns a strategy that was not Active into an Active
\* one, so the counter is never incremented twice for a strategy without a
\* pause or terminate in between.
C6_NoDoubleActivation ==
    /\ \A k \in Seeds, signer \in Principals, c \in OverflowChecks :
           IsActive(strategy[k]) =>
               LET out == ActivateStrategyIx(k, signer, clock, c)
               IN /\ out.result # "Ok"
                  /\ signer = strategy[k].authority
                         => out.result = "StrategyAlreadyActive"
                  /\ out.strategy.state = "Active"
                  /\ out.strategy.last_rebalance_ts = strategy[k].last_rebalance_ts
                  /\ out.stats.active_strategies_count
                         = treasury_stats.active_strategies_count
    /\ ForAllStrategyOutcomes(C6_IncrementActivates)

C6_Witness ==
    /\ result = "StrategyAlreadyActive"
    /\ clock > 0
    /\ \E k \in Seeds : IsActive(strategy[k]) /\ strategy[k].last_rebalance_ts < clock

\* C7: terminate_strategy signed by the authority succeeds from Paused, Active
\* and Terminated, leaves state = Terminated, and decrements
\* active_strategies_count by one exactly when the previous state was Active.
C7_TerminateDecrementsWhenActive ==
    \A k \in Seeds :
        strategy[k].initialized =>
            LET out == TerminateStrategyIx(k, strategy[k].authority, clock)
            IN /\ out.result = "Ok"
               /\ out.strategy.state = "Terminated"
               /\ out.stats.strategies_count = treasury_stats.strategies_count
               /\ out.stats.active_strategies_count
                      = IF strategy[k].state = "Active"
                        THEN treasury_stats.active_strategies_count - 1
                        ELSE treasury_stats.active_strategies_count

\* an outcome keeps risk_score, and keeps allocation_percentage unless it rebalances
C8_OnlyUpdateAllocationWrites(k, out) ==
    strategy[k].initialized =>
        /\ out.strategy.risk_score = strategy[k].risk_score
        /\ out.strategy.allocation_percentage # strategy[k].allocation_percentage
           => out.event.name = "RebalanceEvent"

\* C8: every Strategy account has allocation_percentage and risk_score in
\* [0,100]; initialize_strategy and update_allocation reject a value above 100
\* with a validation error and write nothing; no instruction rewrites
\* risk_score, and only update_allocation rewrites allocation_percentage.
C8_PercentagesInRange ==
    /\ \A k \in Seeds :
           strategy[k].initialized =>
               /\ strategy[k].allocation_percentage \in 0..100
               /\ strategy[k].risk_score \in 0..100
    /\ \A k \in Seeds, signer \in Principals, ty \in StrategyTypes,
          in \in AnyInitializeInputs, c \in OverflowChecks :
           (in[1] > 100 \/ in[3] > 100) =>
               LET out == InitializeStrategyIx(k, signer, ty, in[1], in[2], in[3],
                                               clock, c)
               IN /\ ~strategy[k].initialized =>
                         out.result = IF in[1] > 100
                                      THEN "InvalidAllocationPercentage"
                                      ELSE "InvalidRiskScore"
                  /\ Rejected(out, k, out.result)
                  /\ out.result # "Ok"
    /\ \A k \in Seeds, signer \in Principals, a \in U8Inputs :
           (strategy[k].initialized /\ a > 100) =>
               LET out == UpdateAllocationIx(k, signer, a, clock)
               IN /\ signer = strategy[k].authority =>
                         out.result = "InvalidAllocationPercentage"
                  /\ Rejected(out, k, out.result)
                  /\ out.result # "Ok"
    /\ ForAllStrategyOutcomes(C8_OnlyUpdateAllocationWrites)

\* every seed is in use, so the rejection came from update_allocation
C8_Witness ==
    /\ result = "InvalidAllocationPercentage"
    /\ \A k \in Seeds : strategy[k].initialized
    /\ \E k \in Seeds : strategy[k].allocation_percentage = 100
    /\ \E k \in Seeds : strategy[k].allocation_percentage = 30

\* C9: no operation makes strategies_count or active_strategies_count wrap
\* around or go below zero, and strategies_count never decreases.
C9_CountersNeverWrap ==
    [][/\ treasury_stats'.strategies_count >= treasury_stats.strategies_count
       /\ treasury_stats'.active_strategies_count >= 0
       /\ treasury_stats'.active_strategies_count
              >= treasury_stats.active_strategies_count - 1]_vars

\* (2^64 - 1) - a, limb by limb
U64Complement(a) == [i \in 1..4 |-> (LimbBase - 1) - a[i]]

\* r = min(a + b, 2^64 - 1): a + b fits exactly when b <= (2^64 - 1) - a
IsSaturatedSum(r, a, b) ==
    IF U64Leq(b, U64Complement(a))
    THEN U64Leq(a, r) /\ U64Diff(r, a) = b
    ELSE r = U64MAX

\* C10: a successful report_yield(yield_amount, new_portfolio_value) sets
\* total_yield_generated to min(old + yield_amount, 2^64 - 1), sets
\* current_portfolio_value to new_portfolio_value and leaves strategies_count,
\* active_strategies_count and every Strategy account unchanged; and
\* total_yield_generated never decreases in any step.
C10_YieldSaturates ==
    [][/\ U64Leq(treasury_stats.total_yield_generated,
                 treasury_stats'.total_yield_generated)
       /\ (event'.name = "YieldGeneratedEvent" /\ clock' = clock) =>
              /\ result' = "Ok"
              /\ strategy' = strategy
              /\ IsSaturatedSum(treasury_stats'.total_yield_generated,
                                treasury_stats.total_yield_generated,
                                event'.yield_amount)
              /\ treasury_stats'.current_portfolio_value = event'.new_portfolio_value
              /\ treasury_stats'.strategies_count = treasury_stats.strategies_count
              /\ treasury_stats'.active_strategies_count
                     = treasury_stats.active_strategies_count]_vars

\* a report that saturated: 1000 was added and the total is u64::MAX
C10_Witness ==
    /\ event.name = "YieldGeneratedEvent"
    /\ event.yield_amount = U64(1000)
    /\ treasury_stats.total_yield_generated = U64MAX
    /\ treasury_stats.current_portfolio_value = 50000
    /\ \E k \in Seeds : IsActive(strategy[k])

\* the Config at c names a custody account that the treasury PDA owns
NamesTreasuryCustody(c) ==
    /\ config[c].initialized
    /\ token_accounts[config[c].treasury_token_account].owner = TreasuryKey

\* C11: for any amount X that a caller holds in their stable-token account,
\* swap_usdc_to_usds(X) followed by swap_usds_to_usdc(X) with the same accounts
\* both succeed and leave every balance and supply of the ledger (the caller's
\* two balances, the custody balance, the USDs supply) as before the first swap.
C11_RoundTrip ==
    \A user \in Principals, c \in ConfigKeys, uu \in UserUsdcInputs,
       us \in UserUsdsInputs, X \in AmountInputs :
        LET custody == config[c].treasury_token_account
            m == config[c].usds_mint
            there == SwapUsdcToUsdsIx(config, Bank, c, user, uu, us, custody, m, X)
            back == SwapUsdsToUsdcIx(config, there.bank, c, user, uu, us, custody, m, X)
        IN (/\ NamesTreasuryCustody(c)
            /\ token_accounts[uu].owner = user
            /\ token_accounts[us].owner = user
            /\ token_accounts[uu].mint = token_accounts[custody].mint
            /\ token_accounts[us].mint = m
            /\ U64Leq(X, token_accounts[uu].amount))
           => /\ there.result = "Ok"
              /\ back.result = "Ok"
              /\ back.bank = Bank

\* new = old + X without overflow
Credited(new, old, X) == U64Leq(old, new) /\ U64Diff(new, old) = X

\* the ledger out differs from the current one by X moved from the token
\* account from to the token account to
StableLeg(out, from, to, X) ==
    /\ Credited(token_accounts[from].amount, out.bank.accounts[from].amount, X)
    /\ Credited(out.bank.accounts[to].amount, token_accounts[to].amount, X)

\* a swap outcome is all or nothing: a failure leaves the whole ledger as it
\* was and emits nothing; a success emits the SwapEvent of its direction
AllOrNothing(out, user, X, direction) ==
    /\ out.result # "Ok" => (out.bank = Bank /\ out.event = NoEvent)
    /\ out.result = "Ok" =>
           out.event = [name |-> "SwapEvent", user |-> user, amount |-> X,
                        swap_direction |-> direction]

\* C12: each swap is all-or-nothing.  A failing swap_usdc_to_usds or
\* swap_usds_to_usdc (in account validation, in its first leg or in its second)
\* changes no balance and no supply and emits no event; a successful one has
\* applied both legs: amount moved between the caller's stable account and
\* custody, and amount minted to (burned from) the caller's USDs account
\* together with the supply.
C12_SwapAtomic ==
    \A user \in Principals, c \in ConfigKeys, uu \in UserUsdcInputs,
       us \in UserUsdsInputs, custody \in CustodyInputs, m \in UsdsMintInputs,
       X \in AmountInputs :
        LET there == SwapUsdcToUsdsIx(config, Bank, c, user, uu, us, custody, m, X)
            back == SwapUsdsToUsdcIx(config, Bank, c, user, uu, us, custody, m, X)
        IN /\ AllOrNothing(there, user, X, "UsdcToUsds")
           /\ there.result = "Ok" =>
                  /\ StableLeg(there, uu, custody, X)
                  /\ Credited(there.bank.accounts[us].amount, token_accounts[us].amount, X)
                  /\ Credited(there.bank.mints[m].supply, mints[m].supply, X)
           /\ AllOrNothing(back, user, X, "UsdsToUsdc")
           /\ back.result = "Ok" =>
                  /\ StableLeg(back, custody, uu, X)
                  /\ Credited(token_accounts[us].amount, back.bank.accounts[us].amount, X)
                  /\ Credited(mints[m].supply, back.bank.mints[m].supply, X)

\* a swap_usdc_to_usds failed in its second leg (only mint_to returns Overflow
\* here) after its transfer leg had succeeded: no balance shows the transfer
C12_Witness ==
    /\ result = "Overflow"
    /\ event = NoEvent
    /\ token_accounts["alice_usdc"].amount = U64(MaxDeposit)
    /\ token_accounts["vault"].amount = U64Zero
    /\ U64Leq(Huge, mints["USDS"].supply)

\* a successful outcome carries the clock reading in last_updated_ts
C13_Stamped(k, out) ==
    out.result = "Ok" => out.stats.last_updated_ts = clock

C14_StatsInitializedOnce ==
    treasury_stats.initialized =>
        \A k \in Seeds, signer \in Principals, ty \in StrategyTypes,
           in \in AnyInitializeInputs, c \in OverflowChecks :
            LET out == InitializeStrategyIx(k, signer, ty, in[1], in[2], in[3], clock, c)
            IN out.result = "Ok" =>
                   out.stats = [treasury_stats EXCEPT
                                    !.strategies_count = out.stats.strategies_count,
                                    !.last_updated_ts = out.stats.last_updated_ts]

\* C15: initialize_strategy with allocation_percentage <= 100, risk_score <= 100
\* and target_apy > 0 on an unused key succeeds, creates a Strategy account
\* with state = Paused, current_apy = 0, authority = caller and the given
\* allocation, target_apy and risk_score, and adds exactly 1 to
\* strategies_count without changing active_strategies_count; with a
\* precondition violated or the key in use it fails, writes no account and
\* leaves strategies_count unchanged.
C15_InitializeStrategyContract ==
    \A k \in Seeds, signer \in Principals, ty \in StrategyTypes,
       in \in AnyInitializeInputs, c \in OverflowChecks :
        LET out == InitializeStrategyIx(k, signer, ty, in[1], in[2], in[3], clock, c)
        IN IF in[1] <= 100 /\ in[3] <= 100 /\ in[2] > 0 /\ ~strategy[k].initialized
           THEN /\ out.result = "Ok"
                /\ out.strategy.initialized
                /\ out.strategy.state = "Paused"
                /\ out.strategy.current_apy = 0
                /\ out.strategy.authority = signer
                /\ out.strategy.allocation_percentage = in[1]
                /\ out.strategy.target_apy = in[2]
                /\ out.strategy.risk_score = in[3]
                /\ out.stats.strategies_count = treasury_stats.strategies_count + 1
                /\ out.stats.active_strategies_count
                       = treasury_stats.active_strategies_count
           ELSE /\ out.result # "Ok"
                /\ out.strategy = strategy[k]
                /\ out.stats = treasury_stats
                /\ out.event = NoEvent

\* C16: for a Paused strategy, activate_strategy by its authority succeeds,
\* makes it Active and adds 1 to active_strategies_count, and the
\* pause_strategy that follows succeeds, makes it Paused again and returns the
\* counter to its value before the activation; and whatever ran in between on
\* other strategies, pause_strategy by the authority of an Active strategy
\* succeeds and takes exactly the 1 its activation added off the counter.
C16_ActivatePauseRoundTrip ==
    \A k \in Seeds :
        LET s == strategy[k]
            baseline == treasury_stats.active_strategies_count
        IN /\ (s.initialized /\ s.state = "Paused") =>
                  \A c \in OverflowChecks :
                      LET act == ActivateStrategyOn(s, treasury_stats, k, s.authority, clock, c)
                          pau == PauseStrategyOn(act.strategy, act.stats, k, s.authority, clock)
                      IN /\ act.result = "Ok"
                         /\ act.strategy.state = "Active"
                         /\ act.stats.active_strategies_count = baseline + 1
                         /\ pau.result = "Ok"
                         /\ pau.strategy.state = "Paused"
                         /\ pau.stats.active_strategies_count = baseline
           /\ IsActive(s) =>
                  LET pau == PauseStrategyIx(k, s.authority, clock)
                  IN /\ pau.result = "Ok"
                     /\ pau.strategy.state = "Paused"
                     /\ pau.stats.active_strategies_count = baseline - 1

\* C17: update_allocation (with a percentage in range) and update_apy called by
\* the authority of a Terminated strategy fail with StrategyTerminated and leave
\* allocation_percentage and current_apy unchanged.
C17_TerminatedNotModifiable ==
    \A k \in Seeds :
        (strategy[k].initialized /\ strategy[k].state = "Terminated") =>
            /\ \A a \in {x \in U8Inputs : x <= 100} :
                   LET out == UpdateAllocationIx(k, strategy[k].authority, a, clock)
                   IN /\ out.result = "StrategyTerminated"
                      /\ out.strategy.allocation_percentage
                             = strategy[k].allocation_percentage
            /\ \A y \in ApyInputs \cup LifecycleApyInputs :
                   LET out == UpdateApyIx(k, strategy[k].authority, y, clock)
                   IN /\ out.result = "StrategyTerminated"
                      /\ out.strategy.current_apy = strategy[k].current_apy

\* C18: a successful update_allocation changes only allocation_percentage of
\* its Strategy account, and a successful update_apy only current_apy, plus
\* TreasuryStats.last_updated_ts in both cases: state, authority, target_apy,
\* risk_score and treasury of the strategy, the counters and totals of
\* TreasuryStats and every other Strategy account stay as they were.
C18_UpdateFrames ==
    [][/\ (event'.name = "RebalanceEvent" /\ clock' = clock) =>
              /\ result' = "Ok"
              /\ strategy' = [strategy EXCEPT
                                  ![event'.strategy].allocation_percentage =
                                      event'.new_allocation]
              /\ treasury_stats' = [treasury_stats EXCEPT !.last_updated_ts = clock]
              /\ other_strategies' = other_strategies
       /\ (event'.name = "YieldReportEvent" /\ clock' = clock) =>
              /\ result' = "Ok"
              /\ strategy' = [strategy EXCEPT
                                  ![event'.strategy].current_apy = event'.current_apy]
              /\ treasury_stats' = [treasury_stats EXCEPT !.last_updated_ts = clock]
              /\ other_strategies' = other_strategies]_vars

\* an update_allocation moved alpha from 30 to 100 after update_apy had set
\* its current_apy, with beta Active beside it
C18_Witness ==
    /\ event.name = "RebalanceEvent"
    /\ event.strategy = "alpha"
    /\ event.old_allocation = 30
    /\ event.new_allocation = 100
    /\ strategy["alpha"].allocation_percentage = 100
    /\ strategy["alpha"].current_apy = 700
    /\ strategy["alpha"].target_apy = 500
    /\ IsActive(strategy["beta"])

\* the lifecycle operations of one strategy, with their signer and argument
LifecycleOps ==
    [name : {"activate", "pause", "terminate"}, signer : Principals, arg : {0}]
        \cup [name : {"update_allocation"}, signer : Principals,
              arg : LifecycleAllocationInputs]
        \cup [name : {"update_apy"}, signer : Principals, arg : LifecycleApyInputs]

\* the outcome of op on the Strategy account s at seed k and the TreasuryStats
\* account st
ApplyOp(op, s, st, k, c) ==
    CASE op.name = "activate" -> ActivateStrategyOn(s, st, k, op.signer, clock, c)
      [] op.name = "pause" -> PauseStrategyOn(s, st, k, op.signer, clock)
      [] op.name = "terminate" -> TerminateStrategyOn(s, st, k, op.signer, clock)
      [] op.name = "update_allocation" ->
             UpdateAllocationOn(s, st, k, op.signer, op.arg, clock)
      [] op.name = "update_apy" -> UpdateApyOn(s, st, k, op.signer, op.arg, clock)

\* C19: in every reachable state, two lifecycle operations (activate, pause,
\* terminate, update_allocation, update_apy) on two distinct strategies give,
\* executed one after the other in either order, the same result for each
\* operation, the same two Strategy accounts and the same strategies_count and
\* active_strategies_count.
C19_OrderIndependent ==
    \A a \in Seeds : \A b \in Seeds \ {a}, opA \in LifecycleOps, opB \in LifecycleOps,
                       c \in OverflowChecks :
        LET a1 == ApplyOp(opA, strategy[a], treasury_stats, a, c)
            b1 == ApplyOp(opB, strategy[b], a1.stats, b, c)
            b2 == ApplyOp(opB, strategy[b], treasury_stats, b, c)
            a2 == ApplyOp(opA, strategy[a], b2.stats, a, c)
        IN /\ a1.result = a2.result
           /\ b1.result = b2.result
           /\ a1.strategy = a2.strategy
           /\ b1.strategy = b2.strategy
           /\ b1.stats.strategies_count = a2.stats.strategies_count
           /\ b1.stats.active_strategies_count = a2.stats.active_strategies_count

\* C20: in every reachable state active_strategies_count is the number of
\* Strategy accounts of the treasury whose state is Active, and
\* strategies_count the number of Strategy accounts ever created for it
\* (Terminated ones included).
C20_CountsMatchRecords ==
    /\ treasury_stats.active_strategies_count
           = other_strategies.active
                 + Cardinality({k \in Seeds : IsActive(strategy[k])})
    /\ treasury_stats.strategies_count
           = other_strategies.created
                 + Cardinality({k \in Seeds : strategy[k].initialized})

\* C21: starting from no USDs and an empty custody account, after any sequence
\* of swap_usdc_to_usds and swap_usds_to_usdc calls the stable-token balance of
\* the treasury custody account equals the USDs supply; so swap_usds_to_usdc
\* through a Config that names the treasury custody, by a caller who holds the
\* amount in USDs, never fails for lack of funds in custody.
C21_CustodyBacksSupply ==
    /\ token_accounts["vault"].amount = mints["USDS"].supply
    /\ \A user \in Principals, c \in ConfigKeys, uu \in UserUsdcInputs,
          us \in UserUsdsInputs, X \in AmountInputs :
           LET custody == config[c].treasury_token_account
               m == config[c].usds_mint
               back == SwapUsdsToUsdcIx(config, Bank, c, user, uu, us, custody, m, X)
           IN (/\ NamesTreasuryCustody(c)
               /\ token_accounts[uu].owner = user
               /\ token_accounts[us].owner = user
               /\ token_accounts[uu].mint = token_accounts[custody].mint
               /\ token_accounts[us].mint = m
               /\ U64Leq(X, token_accounts[us].amount))
              => back.result # "InsufficientFunds"

\* the allocation_percentage of the strategies at the seeds in S that exist
\* and are not Terminated, added up
RECURSIVE AllocatedShare(_)
AllocatedShare(S) ==
    IF S = {} THEN 0
    ELSE LET k == CHOOSE x \in S : TRUE
             share == IF strategy[k].initialized /\ strategy[k].state # "Terminated"
                      THEN strategy[k].allocation_percentage
                      ELSE 0
         IN share + AllocatedShare(S \ {k})

\* C22: after any sequence of initialize_strategy and update_allocation calls
\* (and the other instructions), the allocation_percentage of the
\* non-Terminated strategies of the treasury add up to at most 100.
C22_AllocationsWithinTreasury ==
    AllocatedShare(Seeds) <= 100

====
